---- MODULE Spec2Model ----
(***************************************************************************)
(* Deepak Watchdog API: the risk-gated order pipeline of main.py           *)
(* (/trade, /simulate_trade, /admin/active_trade,                          *)
(* /admin/clear_active_trade), the order helper of services/zerodha.py,    *)
(* the /zerodha/place-order route, and /predict with get_prediction of     *)
(* predictor/predictor.py, as concurrent request handlers over the shared  *)
(* store (redis), the broker (KiteConnect) and the reasoning service       *)
(* (OpenAI); and the Groww adapter (app/adapters/groww_adapter.py) with    *)
(* its route (app/api/groww_routes.py).                                    *)
(*                                                                         *)
(* Each handler is cut into steps at its accesses to shared state: the     *)
(* store and the broker.  Code that only touches the handler's locals is   *)
(* part of the step of the shared access that precedes or follows it.      *)
(***************************************************************************)
EXTENDS Integers, Sequences, FiniteSets, TLC

----------------------------------------------------------------------------
(* Bounds of the model *)

\* number of request handlers that can run concurrently
NumProcs == 2
\* total number of requests served in one behaviour
MaxInvocations == 3
\* prices are multiples of 1/TicksPerRupee rupee; on a dyadic grid the
\* float arithmetic of worst_loss is exact, so integers model it
TicksPerRupee == 4

(* Program constants *)

\* largest MAX_RETRIES (GROWW_MAX_RETRIES) explored; its default is 3
MaxRetriesLimit == 3

\* RETRY_BACKOFF, in tenths of a second (default of GROWW_RETRY_BACKOFF, 0.8)
RETRY_BACKOFF == 8

\* MAX_ALLOWED_LOSS, rupees (default of the environment variable)
MAX_ALLOWED_LOSS == 11000
ADMIN_TOKEN == "changeme"

Procs == 1..NumProcs
\* the header is absent: x_admin_token: str = Header(None)
NoToken == "None"
Tokens == {ADMIN_TOKEN, "wrong", NoToken}

----------------------------------------------------------------------------
(* Values of a JSON payload and Python's float()/int() on them *)

Num(n) == [k |-> "num", v |-> n]
\* "nan": float() accepts it, int() raises
NaN == [k |-> "nan", v |-> 0]
\* a value neither float() nor int() accepts ("abc", a list, null)
Bad == [k |-> "bad", v |-> 0]
NoVal == [k |-> "none", v |-> 0]

FloatRaises(x) == x.k = "bad"
IntRaises(x) == x.k # "num"

\* float arithmetic: NaN propagates, every comparison with NaN is false
FSub(a, b) == IF a.k = "nan" \/ b.k = "nan" THEN NaN ELSE Num(a.v - b.v)
FAbs(a) == IF a.k = "nan" THEN NaN ELSE Num(IF a.v < 0 THEN -a.v ELSE a.v)
FMulInt(a, n) == IF a.k = "nan" THEN NaN ELSE Num(a.v * n)
FGt(a, n) == a.k = "num" /\ a.v > n
FLe(a, n) == a.k = "num" /\ a.v <= n

\* the ceiling in ticks
Ceiling == MAX_ALLOWED_LOSS * TicksPerRupee
Rupees(n) == Num(n * TicksPerRupee)

----------------------------------------------------------------------------
(* Payloads: functions from the keys present to their values *)

ScenarioA ==
    [exchange |-> "NFO", tradingsymbol |-> "NIFTY", qty |-> Num(50),
     transaction_type |-> "BUY", entry |-> Rupees(19500),
     stoploss |-> Rupees(19450)]

\* worst-case loss 25000 rupees
ScenarioB == [ScenarioA EXCEPT !.stoploss = Rupees(19000)]
\* worst-case loss exactly the ceiling, with an explicit lot size
AtCeiling ==
    [exchange |-> "NFO", tradingsymbol |-> "NIFTY", qty |-> Num(110),
     transaction_type |-> "SELL", entry |-> Rupees(19450),
     stoploss |-> Rupees(19500), lot_size |-> Num(2)]
\* one tick above the ceiling
AboveCeiling ==
    [exchange |-> "NFO", tradingsymbol |-> "NIFTY", qty |-> Num(1),
     transaction_type |-> "BUY", entry |-> Num(Ceiling + 1),
     stoploss |-> Num(0)]
NoStoploss ==
    [exchange |-> "NFO", tradingsymbol |-> "NIFTY", qty |-> Num(50),
     transaction_type |-> "BUY", entry |-> Rupees(19500)]
NoExchangeNoQty ==
    [tradingsymbol |-> "NIFTY", transaction_type |-> "BUY",
     entry |-> Rupees(19500), stoploss |-> Rupees(19450)]
BadQty == [ScenarioA EXCEPT !.qty = Bad]
NanEntry == [ScenarioB EXCEPT !.entry = NaN]
NegativeQty == [ScenarioB EXCEPT !.qty = Num(-50)]

Payloads ==
    {ScenarioA, ScenarioB, AtCeiling, AboveCeiling, NoStoploss,
     NoExchangeNoQty, BadQty, NanEntry, NegativeQty}

NoPayload == [x \in {} |-> NoVal]

----------------------------------------------------------------------------
(* services/zerodha.py: place_market_order *)

NoOrder == [kind |-> "none", id |-> 0]
\* {"order_id": "SIM-<int(time.time())>", "status": "simulated", ...}
SimOrder == [kind |-> "sim", id |-> 0]
\* what kc.place_order returns: the broker's order id
BrokerOrder(id) == [kind |-> "broker", id |-> id]
\* kc.place_order raised
Raised == [kind |-> "raise", id |-> 0]

\* The order, whether _kite_client() was fetched (which reads the access
\* token) and the number of calls of kc.place_order.  brokerOK and id are the
\* broker's answers: whether it accepts, and the order id it returns.  The
\* clock is not modelled: time.time() is the opaque value Now.
\* (place_market_order_live: a helper that ignores simulate.)
place_market_order_live(simulate, brokerOK, id) ==
    [order |-> IF brokerOK THEN BrokerOrder(id) ELSE Raised,
     fetched |-> TRUE, calls |-> 1]

\* (place_market_order_retry: a helper that calls kc.place_order again when
\* it raised.)
place_market_order_retry(simulate, brokerOK, id) ==
    IF simulate
    THEN [order |-> SimOrder, fetched |-> FALSE, calls |-> 0]
    ELSE [order |-> IF brokerOK THEN BrokerOrder(id) ELSE Raised,
          fetched |-> TRUE, calls |-> IF brokerOK THEN 1 ELSE 2]

place_market_order(simulate, brokerOK, id) ==
    IF simulate
    THEN [order |-> SimOrder, fetched |-> FALSE, calls |-> 0]
    ELSE [order |-> IF brokerOK THEN BrokerOrder(id) ELSE Raised,
          fetched |-> TRUE, calls |-> 1]

----------------------------------------------------------------------------
(* main.py: place_trade_internal *)

required ==
    <<"exchange", "tradingsymbol", "qty", "transaction_type", "entry",
      "stoploss">>

MissingAt(payload) == {i \in 1..Len(required) : required[i] \notin DOMAIN payload}
FirstMissing(payload) ==
    required[CHOOSE i \in MissingAt(payload) :
                 \A j \in MissingAt(payload) : i <= j]

\* payload.get("lot_size", 1)
LotSizeOf(payload) ==
    IF "lot_size" \in DOMAIN payload THEN payload.lot_size ELSE Num(1)

\* (ConversionNeverRaises: conversions that accept every value.)
ConversionNeverRaises(payload) == FALSE
\* the try block of the conversions raises
ConversionRaises(payload) ==
    \/ FloatRaises(payload.entry)
    \/ FloatRaises(payload.stoploss)
    \/ IntRaises(payload.qty)
    \/ IntRaises(LotSizeOf(payload))

\* worst_loss = abs(entry - stop) * qty * lot_size
worst_loss(payload) ==
    FMulInt(FMulInt(FAbs(FSub(payload.entry, payload.stoploss)),
                    payload.qty.v),
            LotSizeOf(payload).v)

\* a gate that compares rupees with ticks of ten rupees
ExceedsTenfold(wl) == FGt(wl, 10 * Ceiling)
\* if worst_loss > MAX_ALLOWED_LOSS
ExceedsLimit(wl) == FGt(wl, Ceiling)

Response(status, reason, wl, order) ==
    [status |-> status, reason |-> reason, worst_loss |-> wl, resp |-> order]

\* (place_trade_internal_live_gate: the gate applied on the live path only.)
place_trade_internal_live_gate(payload, simulate, brokerOK, id) ==
    IF MissingAt(payload) # {}
    THEN [resp |-> Response("rejected", "missing_" \o FirstMissing(payload),
                            NoVal, NoOrder),
          risk |-> NoVal, fetched |-> FALSE, calls |-> 0]
    ELSE IF ConversionRaises(payload)
    THEN [resp |-> Response("rejected", "invalid_payload_types", NoVal, NoOrder),
          risk |-> NoVal, fetched |-> FALSE, calls |-> 0]
    ELSE IF ~simulate /\ ExceedsLimit(worst_loss(payload))
    THEN [resp |-> Response("rejected", "worst_case_loss_exceeds_limit",
                            worst_loss(payload), NoOrder),
          risk |-> worst_loss(payload), fetched |-> FALSE, calls |-> 0]
    ELSE LET o == place_market_order(simulate, brokerOK, id) IN
         [resp |-> IF o.order.kind = "raise"
                   THEN Response("failed", "broker_error", NoVal, NoOrder)
                   ELSE IF simulate
                   THEN Response("simulated", "", worst_loss(payload), o.order)
                   ELSE Response("placed", "", worst_loss(payload), o.order),
          risk |-> worst_loss(payload), fetched |-> o.fetched,
          calls |-> o.calls]

\* The response of one call, the worst_loss it evaluated (NoVal when it
\* returned before line 167) and its broker effects.
place_trade_internal(payload, simulate, brokerOK, id) ==
    IF MissingAt(payload) # {}
    THEN [resp |-> Response("rejected", "missing_" \o FirstMissing(payload),
                            NoVal, NoOrder),
          risk |-> NoVal, fetched |-> FALSE, calls |-> 0]
    ELSE IF ConversionRaises(payload)
    THEN [resp |-> Response("rejected", "invalid_payload_types", NoVal, NoOrder),
          risk |-> NoVal, fetched |-> FALSE, calls |-> 0]
    ELSE IF ExceedsLimit(worst_loss(payload))
    THEN [resp |-> Response("rejected", "worst_case_loss_exceeds_limit",
                            worst_loss(payload), NoOrder),
          risk |-> worst_loss(payload), fetched |-> FALSE, calls |-> 0]
    ELSE LET o == place_market_order(simulate, brokerOK, id) IN
         [resp |-> IF o.order.kind = "raise"
                   THEN Response("failed", "broker_error", NoVal, NoOrder)
                   ELSE IF simulate
                   THEN Response("simulated", "", worst_loss(payload), o.order)
                   ELSE Response("placed", "", worst_loss(payload), o.order),
          risk |-> worst_loss(payload), fetched |-> o.fetched,
          calls |-> o.calls]

\* the responses of a handler that raised: check_admin's 401, and an
\* exception of the store that nothing catches (FastAPI answers 500)
Unauthorized == Response("http_401", "unauthorized", NoVal, NoOrder)
StoreError == Response("http_500", "store_error", NoVal, NoOrder)
NoResponse == Response("none", "", NoVal, NoOrder)

----------------------------------------------------------------------------
(* predictor/predictor.py: get_prediction *)

\* The content of a reply of the reasoning service, by its shape: a strict
\* JSON object ("object"), prose around a fenced JSON object ("fenced"),
\* prose with no JSON ("prose"), the empty string ("empty"), the JSON null
\* ("null").  decision is the value of the object's decision key, "none"
\* when the object has no such key.  quoted: the content is a JSON string
\* literal whose value is the text of that shape.
NoText == [shape |-> "none", decision |-> "none", quoted |-> FALSE]
ObjectText(d) == [shape |-> "object", decision |-> d, quoted |-> FALSE]
FencedText(d) == [shape |-> "fenced", decision |-> d, quoted |-> FALSE]
ProseText == [shape |-> "prose", decision |-> "none", quoted |-> FALSE]
EmptyText == [shape |-> "empty", decision |-> "none", quoted |-> FALSE]
NullText == [shape |-> "null", decision |-> "none", quoted |-> FALSE]
Quoted(t) == [t EXCEPT !.quoted = TRUE]
\* openai.ChatCompletion.create raised (transport error, timeout, API error)
ServiceDown == [shape |-> "raise", decision |-> "none", quoted |-> FALSE]

\* Scenario D: prose around a fenced object
ScenarioD == FencedText("SELL")
Texts ==
    {ObjectText("BUY"), ObjectText("FLAT"), ObjectText("HOLD"),
     ObjectText("none"), ScenarioD, ProseText, EmptyText, NullText,
     Quoted(FencedText("BUY")), Quoted(ProseText)}
Answers == Texts \cup {ServiceDown}

\* Python values: None, a dict parsed from an object, a str, and the error
\* dicts {"error": e, "raw": raw}; PyRaised stands for a raised exception
PyNone == [kind |-> "none", decision |-> "none", error |-> "", raw |-> NoText]
PyDict(d) == [kind |-> "dict", decision |-> d, error |-> "", raw |-> NoText]
PyStr(t) == [kind |-> "str", decision |-> "none", error |-> "", raw |-> t]
ErrorRecord(e, raw) == [kind |-> "dict", decision |-> "none", error |-> e, raw |-> raw]
PyRaised == [kind |-> "raise", decision |-> "none", error |-> "", raw |-> NoText]

\* json.loads(text)
json_loads(t) ==
    IF t.quoted THEN PyStr([t EXCEPT !.quoted = FALSE])
    ELSE IF t.shape = "object" THEN PyDict(t.decision)
    ELSE IF t.shape = "null" THEN PyNone
    ELSE PyRaised

\* storeOK: whether r.lrange("RECENT_TICKS", 0, 50) of build_data_blob
\* answers; answer: what the reasoning service does.  Neither call is inside
\* a try.
get_prediction(storeOK, answer) ==
    IF ~storeOK \/ answer = ServiceDown THEN PyRaised
    ELSE IF json_loads(answer) = PyRaised
    THEN ErrorRecord("invalid_json", answer)
    ELSE json_loads(answer)

----------------------------------------------------------------------------
(* app/adapters/groww_adapter.py: _get_with_retries *)

\* What the server does to one client.get: a response whose
\* raise_for_status() passes, with its body; a response with an error
\* status (HTTPStatusError); no response (RequestError, TimeoutException).
\* The exception raised for an answer is written as the answer itself.
Ok(body) == [k |-> "ok", status |-> 200, body |-> body]
Http(status) == [k |-> "http", status |-> status, body |-> "none"]
Transport == [k |-> "transport", status |-> 0, body |-> "none"]
NoExc == [k |-> "none", status |-> 0, body |-> "none"]
\* Exception("Unknown _get_with_retries failure")
Generic == [k |-> "generic", status |-> 0, body |-> "none"]

\* (RetriedAlways: a helper that retries every error status.)
RetriedAlways(a) == a.k \in {"http", "transport"}
\* the failures the loop retries: status 429, and no response
Retried(a) == (a.k = "http" /\ a.status = 429) \/ a.k = "transport"

\* The while loop, on the answers the server gives to the successive
\* requests: the outcome (the response returned or the exception raised),
\* the number of requests made and the sleeps taken, in tenths of a second.
RECURSIVE retry_loop(_, _, _, _, _, _)
retry_loop(max, answers, attempt, backoff, last_exc, sleeps) ==
    IF attempt < max
    THEN LET a == answers[attempt + 1] IN
         IF a.k = "ok"
         THEN [out |-> "return", value |-> a, requests |-> attempt + 1,
               sleeps |-> sleeps]
         ELSE IF Retried(a)
         THEN retry_loop(max, answers, attempt + 1, backoff * 2, a,
                         Append(sleeps, backoff * (attempt + 1)))
         ELSE [out |-> "raise", value |-> a, requests |-> attempt + 1,
               sleeps |-> sleeps]
    ELSE [out |-> "raise",
          value |-> IF last_exc # NoExc THEN last_exc ELSE Generic,
          requests |-> attempt, sleeps |-> sleeps]

\* _get_with_retries(url), MAX_RETRIES being max
get_with_retries(max, answers) ==
    retry_loop(max, answers, 0, RETRY_BACKOFF, NoExc, <<>>)

NoResult == [out |-> "none", value |-> NoExc, requests |-> 0, sleeps |-> <<>>]

\* an exception recorded by fetch_option_chain, with the path it is about
At(exc, path) == [exc |-> exc, path |-> path]
NoValue == [body |-> "none", path |-> 0]

\* groww: the function called; MAX_RETRIES, the answers of the server and
\* the result of the last call of _get_with_retries; for
\* fetch_option_chain, where it is ("paths": in the for loop), the index of
\* the next candidate path, the number of paths requested, last_exc and
\* the chain returned; for the route, its HTTP status and detail
NoCall ==
    [fn |-> "none", max |-> 0, answers |-> <<>>, result |-> NoResult,
     pc |-> "idle", path |-> 1, tried |-> 0, last_exc |-> At(NoExc, 0),
     value |-> NoValue, http |-> 0, detail |-> ""]

----------------------------------------------------------------------------
(* State *)

VARIABLES
    flag,         \* the store's ACTIVE_TRADE key
    pc,           \* where each handler is in its request
    op,           \* the endpoint each handler serves
    payload,      \* the request's payload
    resp,         \* the handler's response (its local resp until it returns)
    hist,         \* what the current request has done so far
    started,      \* number of requests started
    nextOrderId,  \* the broker's next order id
    predictions,  \* the store's PREDICTIONS list, newest entry first
    groww         \* the call of the Groww adapter in progress, or the last one

vars ==
    <<flag, pc, op, payload, resp, hist, started, nextOrderId, predictions,
      groww>>

Now == "time.time()"
NoFlag == [present |-> FALSE, placed_resp |-> NoOrder, ts |-> ""]
\* json.dumps({"placed_resp": resp["resp"], "ts": time.time()})
FlagValue(order) == [present |-> TRUE, placed_resp |-> order, ts |-> Now]

\* hist[p]: calls of kc.place_order, whether _kite_client() was fetched, the
\* worst_loss the request evaluated, the order it wrote to the flag,
\* whether the flag was present when it started, and what its
\* r.exists(ACTIVE_TRADE_KEY) answered ("none" when it made no such call);
\* for /predict, the calls of openai.ChatCompletion.create, the reply, what
\* get_prediction returned, what became of r.lpush ("stored" or "raised"),
\* and whether logger.exception reported its failure
NoHist ==
    [calls |-> 0, fetched |-> FALSE, risk |-> NoVal, wrote |-> NoOrder,
     token |-> NoToken, startFlag |-> FALSE, exists |-> "none",
     asked |-> 0, answer |-> NoText, raw |-> PyNone, push |-> "none",
     reported |-> FALSE]

Init ==
    /\ flag = NoFlag
    /\ pc = [p \in Procs |-> "idle"]
    /\ op = [p \in Procs |-> "none"]
    /\ payload = [p \in Procs |-> NoPayload]
    /\ resp = [p \in Procs |-> NoResponse]
    /\ hist = [p \in Procs |-> NoHist]
    /\ started = 0
    /\ nextOrderId = 1
    /\ predictions = <<>>
    /\ groww = NoCall

\* what a handler has done when it has read its x_admin_token header
Start(token) == [NoHist EXCEPT !.token = token, !.startFlag = flag.present]

\* a handler takes the next request
Begin(p, endpoint, pl) ==
    /\ pc[p] \in {"idle", "done"}
    /\ started < MaxInvocations
    /\ started' = started + 1
    /\ op' = [op EXCEPT ![p] = endpoint]
    /\ payload' = [payload EXCEPT ![p] = pl]

\* the handler returns r (or raises, r being the error response)
Return(p, r) ==
    /\ pc' = [pc EXCEPT ![p] = "done"]
    /\ resp' = [resp EXCEPT ![p] = r]

\* the broker effects of a call of place_trade_internal
Record(h, r) ==
    [h EXCEPT !.calls = @ + r.calls, !.fetched = @ \/ r.fetched,
              !.risk = r.risk]

IdAfter(r) == IF r.resp.resp.kind = "broker" THEN nextOrderId + 1 ELSE nextOrderId

----------------------------------------------------------------------------
(* main.py: the handlers *)

\* (check_admin_present: a check that only asks for the header to be there.)
check_admin_present(token) == token # NoToken

\* check_admin
check_admin(token) == token = ADMIN_TOKEN

Blocked == Response("blocked", "single active trade exists", NoVal, NoOrder)

\* a /trade that never sees the flag
active_trade_never == FALSE
\* r.exists(ACTIVE_TRADE_KEY)
active_trade_exists == flag.present

\* a /trade that records every response as the active trade
marks_always(r) == TRUE
\* a /trade that records no response
marks_never(r) == FALSE
\* if resp.get("status") == "placed"
marks_active(r) == r.status = "placed"

\* what r.exists(ACTIVE_TRADE_KEY) answers a /trade that passed check_admin
ExistsAnswer(token, storeOK) ==
    IF ~check_admin(token) THEN "none"
    ELSE IF ~storeOK THEN "raised"
    ELSE IF flag.present THEN "present" ELSE "absent"

\* (trade_check_fail_open: a /trade that takes a raising r.exists for an
\* absent flag.)
trade_check_fail_open(p, In) ==
    \E pl \in In, token \in Tokens, storeOK \in BOOLEAN :
        /\ Begin(p, "trade", pl)
        /\ hist' = [hist EXCEPT ![p] =
                       [Start(token) EXCEPT !.exists = ExistsAnswer(token, storeOK)]]
        /\ IF ~check_admin(token) THEN Return(p, Unauthorized)
           ELSE IF storeOK /\ active_trade_exists THEN Return(p, Blocked)
           ELSE /\ pc' = [pc EXCEPT ![p] = "internal"]
                /\ resp' = [resp EXCEPT ![p] = NoResponse]
        /\ UNCHANGED <<flag, nextOrderId, predictions, groww>>

\* (trade_check_risk_first: a /trade that validates the payload and applies
\* the gate before it looks at the flag.)
trade_check_risk_first(p, In) ==
    \E pl \in In, token \in Tokens, storeOK \in BOOLEAN :
        LET v == place_trade_internal(pl, TRUE, TRUE, nextOrderId) IN
        /\ Begin(p, "trade", pl)
        /\ IF ~check_admin(token)
           THEN /\ Return(p, Unauthorized)
                /\ hist' = [hist EXCEPT ![p] = Start(token)]
           ELSE IF v.resp.status = "rejected"
           THEN /\ Return(p, v.resp)
                /\ hist' = [hist EXCEPT ![p] =
                               [Start(token) EXCEPT !.risk = v.risk]]
           ELSE /\ hist' = [hist EXCEPT ![p] = Start(token)]
                /\ IF ~storeOK THEN Return(p, StoreError)
                   ELSE IF active_trade_exists THEN Return(p, Blocked)
                   ELSE /\ pc' = [pc EXCEPT ![p] = "internal"]
                        /\ resp' = [resp EXCEPT ![p] = NoResponse]
        /\ UNCHANGED <<flag, nextOrderId, predictions, groww>>

\* /trade up to r.exists(ACTIVE_TRADE_KEY): check_admin and the flag check.
\* storeOK: whether the store answers (r.exists raises otherwise).
trade_check(p, In) ==
    \E pl \in In, token \in Tokens, storeOK \in BOOLEAN :
        /\ Begin(p, "trade", pl)
        /\ hist' = [hist EXCEPT ![p] =
                       [Start(token) EXCEPT !.exists = ExistsAnswer(token, storeOK)]]
        /\ IF ~check_admin(token) THEN Return(p, Unauthorized)
           ELSE IF ~storeOK THEN Return(p, StoreError)
           ELSE IF active_trade_exists THEN Return(p, Blocked)
           ELSE /\ pc' = [pc EXCEPT ![p] = "internal"]
                /\ resp' = [resp EXCEPT ![p] = NoResponse]
        /\ UNCHANGED <<flag, nextOrderId, predictions, groww>>

\* /trade: resp = place_trade_internal(payload, simulate=False), and the
\* return of any resp that is not "placed"
trade_internal(p) ==
    /\ pc[p] = "internal"
    /\ \E brokerOK \in BOOLEAN :
        LET r == place_trade_internal(payload[p], FALSE, brokerOK, nextOrderId) IN
        /\ resp' = [resp EXCEPT ![p] = r.resp]
        /\ hist' = [hist EXCEPT ![p] = Record(@, r)]
        /\ nextOrderId' = IdAfter(r)
        /\ pc' = [pc EXCEPT ![p] = IF marks_active(r.resp) THEN "mark" ELSE "done"]
    /\ UNCHANGED <<flag, op, payload, started, predictions, groww>>

\* /trade: r.set(ACTIVE_TRADE_KEY, ...) and return resp
trade_mark(p) ==
    /\ pc[p] = "mark"
    /\ \E storeOK \in BOOLEAN :
        IF storeOK
        THEN /\ flag' = FlagValue(resp[p].resp)
             /\ hist' = [hist EXCEPT ![p].wrote = resp[p].resp]
             /\ Return(p, resp[p])
        ELSE /\ Return(p, StoreError)
             /\ UNCHANGED <<flag, hist>>
    /\ UNCHANGED <<op, payload, started, nextOrderId, predictions, groww>>

\* (simulate_trade_guarded: a /simulate_trade with the flag check of /trade.)
simulate_trade_guarded(p, In) ==
    \E pl \in In, token \in Tokens, brokerOK \in BOOLEAN :
        /\ Begin(p, "simulate_trade", pl)
        /\ IF ~check_admin(token)
           THEN /\ Return(p, Unauthorized)
                /\ hist' = [hist EXCEPT ![p] = Start(token)]
                /\ UNCHANGED nextOrderId
           ELSE IF active_trade_exists
           THEN /\ Return(p, Blocked)
                /\ hist' = [hist EXCEPT ![p] = Start(token)]
                /\ UNCHANGED nextOrderId
           ELSE LET r == place_trade_internal(pl, TRUE, brokerOK, nextOrderId) IN
                /\ Return(p, r.resp)
                /\ hist' = [hist EXCEPT ![p] =
                               Record(Start(token), r)]
                /\ nextOrderId' = IdAfter(r)
        /\ UNCHANGED <<flag, predictions, groww>>

\* /simulate_trade
simulate_trade(p, In) ==
    \E pl \in In, token \in Tokens, brokerOK \in BOOLEAN :
        /\ Begin(p, "simulate_trade", pl)
        /\ IF ~check_admin(token)
           THEN /\ Return(p, Unauthorized)
                /\ hist' = [hist EXCEPT ![p] = Start(token)]
                /\ UNCHANGED nextOrderId
           ELSE LET r == place_trade_internal(pl, TRUE, brokerOK, nextOrderId) IN
                /\ Return(p, r.resp)
                /\ hist' = [hist EXCEPT ![p] =
                               Record(Start(token), r)]
                /\ nextOrderId' = IdAfter(r)
        /\ UNCHANGED <<flag, predictions, groww>>

\* (clear_active_trade_strict: a clear that refuses an absent flag.)
clear_active_trade_strict(p) ==
    \E token \in Tokens, storeOK \in BOOLEAN :
        /\ Begin(p, "clear_active_trade", NoPayload)
        /\ hist' = [hist EXCEPT ![p] = Start(token)]
        /\ IF ~check_admin(token) THEN Return(p, Unauthorized) /\ UNCHANGED flag
           ELSE IF ~storeOK THEN Return(p, StoreError) /\ UNCHANGED flag
           ELSE IF ~flag.present
           THEN /\ Return(p, Response("http_404", "no_active_trade", NoVal, NoOrder))
                /\ UNCHANGED flag
           ELSE /\ flag' = NoFlag
                /\ Return(p, Response("cleared", "", NoVal, NoOrder))
        /\ UNCHANGED <<nextOrderId, predictions, groww>>

\* /admin/clear_active_trade
clear_active_trade(p) ==
    \E token \in Tokens, storeOK \in BOOLEAN :
        /\ Begin(p, "clear_active_trade", NoPayload)
        /\ IF ~check_admin(token)
           THEN /\ Return(p, Unauthorized)
                /\ hist' = [hist EXCEPT ![p] = Start(token)]
                /\ UNCHANGED flag
           ELSE IF ~storeOK
           THEN /\ Return(p, StoreError)
                /\ hist' = [hist EXCEPT ![p] = Start(token)]
                /\ UNCHANGED flag
           ELSE /\ flag' = NoFlag
                /\ Return(p, Response("cleared", "", NoVal, NoOrder))
                /\ hist' = [hist EXCEPT ![p] = Start(token)]
        /\ UNCHANGED <<nextOrderId, predictions, groww>>

\* /admin/active_trade: {"active_trade": json.loads(val) if val else None},
\* the order the flag records standing for the value
get_active_trade(p) ==
    \E token \in Tokens, storeOK \in BOOLEAN :
        /\ Begin(p, "get_active_trade", NoPayload)
        /\ hist' = [hist EXCEPT ![p] = Start(token)]
        /\ IF ~check_admin(token) THEN Return(p, Unauthorized)
           ELSE IF ~storeOK THEN Return(p, StoreError)
           ELSE Return(p, Response("ok", "active_trade", NoVal, flag.placed_resp))
        /\ UNCHANGED <<flag, nextOrderId, predictions, groww>>

----------------------------------------------------------------------------
(* main.py: /predict *)

\* lines 79-105: a str is unfenced, stripped of backticks and parsed, the
\* text from its first { to its last } being tried next; anything else is
\* taken as it is.  (The strip also deletes the letters "json" wherever they
\* stand; the objects here hold none.)
Recover(raw_pred) ==
    IF raw_pred.kind = "str"
    THEN IF raw_pred.raw.shape \in {"object", "fenced"}
         THEN PyDict(raw_pred.raw.decision)
         ELSE PyNone
    ELSE raw_pred

\* lines 107-108: if pred is None: pred = {"error": "unparseable", "raw": ...}
Parsed(raw_pred) ==
    IF Recover(raw_pred) = PyNone
    THEN ErrorRecord("unparseable",
                     IF raw_pred = PyNone THEN EmptyText ELSE raw_pred.raw)
    ELSE Recover(raw_pred)

\* {"status": "ok", "source": "openai", "data": data}
PredictResponse(data) == Response("ok", "openai", NoVal, data)
\* {"error": "prediction_exception", "detail": str(exc)}
Fallback == ErrorRecord("prediction_exception", NoText)
\* {"ts": time.time(), "prediction": pred}
LogEntry(pred) == [ts |-> Now, prediction |-> pred]

\* /predict up to the r.lpush: check_admin, get_prediction and the recovery
\* of pred; an exception of get_prediction is answered with the fallback
predict_get(p) ==
    \E token \in Tokens, storeOK \in BOOLEAN, answer \in Answers :
        LET raw_pred == get_prediction(storeOK, answer) IN
        /\ Begin(p, "predict", NoPayload)
        /\ IF ~check_admin(token)
           THEN /\ Return(p, Unauthorized)
                /\ hist' = [hist EXCEPT ![p] = Start(token)]
           ELSE /\ hist' = [hist EXCEPT ![p] =
                               [Start(token) EXCEPT !.asked = IF storeOK THEN 1 ELSE 0,
                                              !.answer = IF storeOK THEN answer ELSE NoText,
                                              !.raw = raw_pred]]
                /\ IF raw_pred = PyRaised
                   THEN Return(p, PredictResponse(Fallback))
                   ELSE /\ pc' = [pc EXCEPT ![p] = "log"]
                        /\ resp' = [resp EXCEPT ![p] = PredictResponse(Parsed(raw_pred))]
        /\ UNCHANGED <<flag, nextOrderId, predictions, groww>>

\* (predict_log_propagates: a /predict that lets the exception of r.lpush
\* out.)
predict_log_propagates(p) ==
    /\ pc[p] = "log"
    /\ \E storeOK \in BOOLEAN :
        IF storeOK
        THEN /\ predictions' = <<LogEntry(resp[p].resp)>> \o predictions
             /\ hist' = [hist EXCEPT ![p].push = "stored"]
             /\ Return(p, resp[p])
        ELSE /\ UNCHANGED predictions
             /\ hist' = [hist EXCEPT ![p].push = "raised"]
             /\ Return(p, StoreError)
    /\ UNCHANGED <<flag, op, payload, started, nextOrderId, groww>>

\* /predict: r.lpush(PREDICTIONS_LIST, json.dumps(log)) in its own try, and
\* the return of pred
predict_log(p) ==
    /\ pc[p] = "log"
    /\ \E storeOK \in BOOLEAN :
        /\ IF storeOK
           THEN /\ predictions' = <<LogEntry(resp[p].resp)>> \o predictions
                /\ hist' = [hist EXCEPT ![p].push = "stored"]
           ELSE /\ UNCHANGED predictions
                /\ hist' = [hist EXCEPT ![p].push = "raised",
                                        ![p].reported = TRUE]
        /\ Return(p, resp[p])
    /\ UNCHANGED <<flag, op, payload, started, nextOrderId, groww>>

----------------------------------------------------------------------------
(* app/api/zerodha_routes.py: /zerodha/place-order *)

\* OrderParams: order_type defaults to "MARKET", price to None (NoVal)
MarketOrder ==
    [tradingsymbol |-> "NIFTY", exchange |-> "NSE", transaction_type |-> "BUY",
     quantity |-> Num(1000000), order_type |-> "MARKET", price |-> NoVal]
LimitOrder == [MarketOrder EXCEPT !.order_type = "LIMIT", !.price = Rupees(19500)]
LimitNoPrice == [MarketOrder EXCEPT !.order_type = "LIMIT"]
LimitZeroPrice == [MarketOrder EXCEPT !.order_type = "LIMIT", !.price = Num(0)]
OrderParams == {MarketOrder, LimitOrder, LimitNoPrice, LimitZeroPrice}

\* not params.get("price"): None and 0.0 are falsy
NoPrice(order) == order.price = NoVal \/ order.price = Num(0)

\* get_kite's answers: r.get raises, no access token stored, a client
KiteAnswers == {"store_raises", "no_token", "client"}

\* The route has no check_admin, no flag check and no risk evaluation.
place_order(p) ==
    \E order \in OrderParams, kite \in KiteAnswers, brokerOK \in BOOLEAN :
        /\ Begin(p, "zerodha_place_order", order)
        /\ IF kite = "store_raises"
           THEN /\ Return(p, StoreError)
                /\ hist' = [hist EXCEPT ![p] = NoHist]
                /\ UNCHANGED nextOrderId
           ELSE IF kite = "no_token"
           THEN /\ Return(p, Response("http_401", "no_access_token", NoVal, NoOrder))
                /\ hist' = [hist EXCEPT ![p] = NoHist]
                /\ UNCHANGED nextOrderId
           ELSE IF order.order_type = "LIMIT" /\ NoPrice(order)
           THEN /\ Return(p, Response("http_400", "price_required", NoVal, NoOrder))
                /\ hist' = [hist EXCEPT ![p] = [NoHist EXCEPT !.fetched = TRUE]]
                /\ UNCHANGED nextOrderId
           ELSE /\ hist' = [hist EXCEPT ![p] =
                               [NoHist EXCEPT !.fetched = TRUE, !.calls = 1]]
                /\ IF brokerOK
                   THEN /\ Return(p, Response("ok", "", NoVal, BrokerOrder(nextOrderId)))
                        /\ nextOrderId' = nextOrderId + 1
                   ELSE /\ Return(p, Response("http_400", "broker_error", NoVal, NoOrder))
                        /\ UNCHANGED nextOrderId
        /\ UNCHANGED <<flag, predictions, groww>>

----------------------------------------------------------------------------
(* services/zerodha.py: place_market_order, called with an order type *)

\* A call of place_market_order(..., simulate, order_type, price) by a
\* caller of the module.  order_type and price only shape params ("price" is
\* set for a LIMIT order whose price is not None): the helper validates
\* nothing and calls kc.place_order(**params) whatever params holds.
place_market_order_call(p) ==
    \E order \in OrderParams, simulate \in BOOLEAN, brokerOK \in BOOLEAN :
        LET o == place_market_order(simulate, brokerOK, nextOrderId) IN
        /\ Begin(p, "place_market_order", order)
        /\ hist' = [hist EXCEPT ![p] =
                       [NoHist EXCEPT !.startFlag = flag.present,
                                      !.fetched = o.fetched,
                                      !.calls = o.calls]]
        /\ Return(p, IF o.order = Raised
                     THEN Response("raised", "broker_error", NoVal, NoOrder)
                     ELSE Response("returned", "", NoVal, o.order))
        /\ nextOrderId' = IF o.order.kind = "broker"
                          THEN nextOrderId + 1 ELSE nextOrderId
        /\ UNCHANGED <<flag, predictions, groww>>

----------------------------------------------------------------------------
(* app/adapters/groww_adapter.py: calls *)

\* the answers of the server to one request
ServerAnswers == {Ok("chain"), Http(429), Http(401), Http(500), Transport}

\* A call of _get_with_retries, for every MAX_RETRIES up to the limit and
\* every run of answers.
get_with_retries_call ==
    /\ groww = NoCall
    /\ \E max \in 0..MaxRetriesLimit,
          answers \in [1..MaxRetriesLimit -> ServerAnswers] :
        groww' = [NoCall EXCEPT !.fn = "_get_with_retries",
                                !.max = max,
                                !.answers = answers,
                                !.result = get_with_retries(max, answers)]
    /\ UNCHANGED <<flag, pc, op, payload, resp, hist, started, nextOrderId,
                   predictions>>

\* candidate_paths has seven entries
NumPaths == 7

\* What a path answers, as the run of answers to its requests: a response
\* at once, with a body that is no JSON, JSON but no object, an error
\* payload, an object that fails validation, a chain with ce and pe both
\* empty, a chain; an error status at every request; no response ever; or
\* 429 and then a chain.
Bodies ==
    {"invalid_json", "non_object", "error_payload", "invalid_chain",
     "empty_chain", "chain"}
FirstAnswers ==
    {Ok(b) : b \in Bodies} \cup {Http(429), Http(401), Http(403), Transport}
PathAnswers ==
    {[j \in 1..MaxRetriesLimit |-> a] : a \in FirstAnswers}
    \cup {[j \in 1..MaxRetriesLimit |-> IF j = 1 THEN Http(429) ELSE Ok("chain")]}

\* the exceptions of the body of the for loop
JsonError == [k |-> "json", status |-> 0, body |-> "invalid_json"]
NonObject == [k |-> "non_object", status |-> 0, body |-> "non_object"]
ApiError == [k |-> "api_error", status |-> 0, body |-> "error_payload"]
ValidationError == [k |-> "validation", status |-> 0, body |-> "invalid_chain"]

\* (PathFailureLenient: a loop that takes an error payload for a chain.)
PathFailureLenient(r) ==
    IF r.out = "raise" THEN r.value
    ELSE IF r.value.body = "invalid_json" THEN JsonError
    ELSE IF r.value.body = "non_object" THEN NonObject
    ELSE IF r.value.body = "invalid_chain" THEN ValidationError
    ELSE NoExc

\* What the loop records as last_exc for a path, r being the result of
\* _get_with_retries: the exception it raised, that of resp.json(), the
\* "Non-object JSON" and "API error" exceptions, that of
\* OptionChainResponse(**normalized); NoExc when the path gives a chain.
PathFailure(r) ==
    IF r.out = "raise" THEN r.value
    ELSE IF r.value.body = "invalid_json" THEN JsonError
    ELSE IF r.value.body = "non_object" THEN NonObject
    ELSE IF r.value.body = "error_payload" THEN ApiError
    ELSE IF r.value.body = "invalid_chain" THEN ValidationError
    ELSE NoExc

\* fetch_option_chain is called, by the route or by another caller
fetch_begin ==
    /\ groww = NoCall
    /\ \E fn \in {"fetch_option_chain", "get_option_chain"} :
        groww' = [NoCall EXCEPT !.fn = fn, !.pc = "paths",
                                !.max = MaxRetriesLimit]
    /\ UNCHANGED <<flag, pc, op, payload, resp, hist, started, nextOrderId,
                   predictions>>

\* one turn of the for loop: the next candidate path is requested
fetch_try ==
    /\ groww.pc = "paths"
    /\ groww.path <= NumPaths
    /\ \E answers \in PathAnswers :
        LET r == get_with_retries(groww.max, answers) IN
        groww' =
            IF PathFailure(r) = NoExc
            THEN [groww EXCEPT !.answers = answers, !.result = r,
                               !.tried = groww.path,
                               !.pc = "returned",
                               !.value = [body |-> r.value.body,
                                          path |-> groww.path]]
            ELSE [groww EXCEPT !.answers = answers, !.result = r,
                               !.tried = groww.path,
                               !.path = groww.path + 1,
                               !.last_exc = At(PathFailure(r), groww.path)]
    /\ UNCHANGED <<flag, pc, op, payload, resp, hist, started, nextOrderId,
                   predictions>>

\* after the loop: raise last_exc, or (no exception recorded) return the
\* empty structure
fetch_end ==
    /\ groww.pc = "paths"
    /\ groww.path > NumPaths
    /\ groww' =
         IF groww.last_exc.exc # NoExc
         THEN [groww EXCEPT !.pc = "raised"]
         ELSE [groww EXCEPT !.pc = "returned",
                            !.value = [body |-> "empty_chain", path |-> 0]]
    /\ UNCHANGED <<flag, pc, op, payload, resp, hist, started, nextOrderId,
                   predictions>>

----------------------------------------------------------------------------
(* app/api/groww_routes.py: /api/groww/option-chain/{symbol} *)

\* the route's except Exception: every exception raised in its try block,
\* the HTTPException(502) of line 12 included, is answered with status 500
\* and detail str(e)
get_option_chain_answer ==
    /\ groww.fn = "get_option_chain"
    /\ groww.pc \in {"returned", "raised"}
    /\ groww' =
         IF groww.pc = "raised"
         THEN [groww EXCEPT !.pc = "answered", !.http = 500,
                            !.detail = "str(last_exc)"]
         ELSE IF groww.value.body = "empty_chain"
         THEN [groww EXCEPT !.pc = "answered", !.http = 500,
                            !.detail = "str(HTTPException(502))"]
         ELSE [groww EXCEPT !.pc = "answered", !.http = 200,
                            !.detail = "ok"]
    /\ UNCHANGED <<flag, pc, op, payload, resp, hist, started, nextOrderId,
                   predictions>>

----------------------------------------------------------------------------
(* Specifications *)

\* Concurrent handlers, on the payloads that decide admission
RacePayloads == {ScenarioA, AboveCeiling}

Next ==
    \E p \in Procs :
        \/ trade_check(p, RacePayloads)
        \/ trade_internal(p)
        \/ trade_mark(p)
        \/ simulate_trade(p, RacePayloads)
        \/ clear_active_trade(p)

Spec == Init /\ [][Next]_vars

\* One handler serving the requests one after the other, on every payload
NextSeq ==
    \/ trade_check(1, Payloads)
    \/ trade_internal(1)
    \/ trade_mark(1)
    \/ simulate_trade(1, Payloads)
    \/ clear_active_trade(1)
    \/ get_active_trade(1)
    \/ place_order(1)

SpecSeq == Init /\ [][NextSeq]_vars

\* One /simulate_trade handler beside one /trade handler, on every payload
NextPair ==
    \/ simulate_trade(1, Payloads)
    \/ trade_check(2, Payloads)
    \/ trade_internal(2)
    \/ trade_mark(2)

SpecPair == Init /\ [][NextPair]_vars

\* One /predict handler beside one handler of the trade endpoints, on
\* Scenario A
NextPredict ==
    \/ predict_get(1)
    \/ predict_log(1)
    \/ trade_check(2, {ScenarioA})
    \/ trade_internal(2)
    \/ trade_mark(2)
    \/ simulate_trade(2, {ScenarioA})

SpecPredict == Init /\ [][NextPredict]_vars

\* Two /predict handlers
NextPredictPair ==
    \E p \in {1, 2} :
        \/ predict_get(p)
        \/ predict_log(p)

SpecPredictPair == Init /\ [][NextPredictPair]_vars

\* The two ways to place an order of a given type: the helper and the route
NextOrders ==
    \/ place_market_order_call(1)
    \/ place_order(1)

SpecOrders == Init /\ [][NextOrders]_vars

\* The Groww adapter
NextGroww ==
    \/ get_with_retries_call
    \/ fetch_begin
    \/ fetch_try
    \/ fetch_end
    \/ get_option_chain_answer

SpecGroww == Init /\ [][NextGroww]_vars

\* One handler serving the five endpoints behind check_admin, on Scenario A
NextAdmin ==
    \/ predict_get(1)
    \/ predict_log(1)
    \/ simulate_trade(1, {ScenarioA})
    \/ trade_check(1, {ScenarioA})
    \/ trade_internal(1)
    \/ trade_mark(1)
    \/ get_active_trade(1)
    \/ clear_active_trade(1)

SpecAdmin == Init /\ [][NextAdmin]_vars

----------------------------------------------------------------------------
(* Properties *)

Done(p) == pc[p] = "done"
\* the request passed check_admin and the store answered it
Served(p) == resp[p] # Unauthorized /\ resp[p] # StoreError
\* the request evaluated worst_loss and the gate let it through
PassedGate(p) == hist[p].risk # NoVal /\ ~FGt(hist[p].risk, Ceiling)

\* C1: a /trade request that starts while ACTIVE_TRADE is present never
\* calls kc.place_order, whatever its payload, and (when it passed
\* check_admin and the store answered r.exists) it ends blocked.
ActiveTradeBlocksLiveOrder ==
    \A p \in Procs :
        (op[p] = "trade" /\ hist[p].startFlag) =>
            /\ hist[p].calls = 0
            /\ ~hist[p].fetched
            /\ Done(p)
            /\ Served(p) => resp[p] = Blocked

BlockedValidAndInvalid ==
    \E p \in Procs :
        /\ op[p] = "trade" /\ hist[p].startFlag /\ resp[p] = Blocked
        /\ payload[p] \in {ScenarioA, NoStoploss}

\* C2: no two /trade requests both hold an order placed at the broker with
\* no clear in between: while one has its order placed and has not yet set
\* the flag, no other has an order placed that is unrecorded or is the one
\* the flag records.
AtMostOneTradePlaced ==
    \A p, q \in Procs :
        (/\ p # q
         /\ op[p] = "trade" /\ op[q] = "trade"
         /\ pc[q] = "mark"
         /\ resp[p].status = "placed")
        => ~(\/ pc[p] = "mark"
             \/ Done(p) /\ flag = FlagValue(resp[p].resp))

\* C3: every call of kc.place_order is preceded, in the same request, by a
\* risk evaluation whose worst_loss is <= MAX_ALLOWED_LOSS.
BrokerCallRiskChecked ==
    \A p \in Procs : hist[p].calls > 0 => FLe(hist[p].risk, Ceiling)

\* C4: the gate lets a request through exactly when its worst_loss is
\* <= MAX_ALLOWED_LOSS.
GateIsLossAtMostCeiling ==
    \A p \in Procs :
        (op[p] \in {"trade", "simulate_trade"} /\ Done(p) /\ hist[p].risk # NoVal)
        => (resp[p].reason # "worst_case_loss_exceeds_limit"
            <=> FLe(hist[p].risk, Ceiling))

\* C5: a request whose worst_loss is above the ceiling ends rejected with
\* reason worst_case_loss_exceeds_limit and the computed loss, with no
\* broker client fetched, no call of kc.place_order and no write of the flag.
RiskRejectionStopsBeforeBroker ==
    \A p \in Procs :
        (op[p] \in {"trade", "simulate_trade"} /\ FGt(hist[p].risk, Ceiling)) =>
            /\ Done(p)
            /\ resp[p] = Response("rejected", "worst_case_loss_exceeds_limit",
                                  hist[p].risk, NoOrder)
            /\ hist[p].risk = worst_loss(payload[p])
            /\ hist[p].calls = 0
            /\ ~hist[p].fetched
            /\ hist[p].wrote = NoOrder

ScenarioBRejected ==
    \E p \in Procs :
        /\ op[p] = "trade" /\ payload[p] = ScenarioB /\ Done(p)
        /\ resp[p].reason = "worst_case_loss_exceeds_limit"
        /\ resp[p].worst_loss = Rupees(25000)

\* C6: the flag is written only by the r.set of a /trade request whose
\* kc.place_order call has just returned an order, and it then holds that
\* order; a request that ends rejected, blocked, failed or simulated has
\* not written the flag.
FlagSetOnlyAfterLivePlacement ==
    [][/\ (flag' # flag /\ flag'.present) =>
            \E p \in Procs :
                /\ op[p] = "trade" /\ pc[p] = "mark" /\ pc'[p] = "done"
                /\ resp[p].status = "placed"
                /\ resp[p].resp.kind = "broker"
                /\ hist[p].calls = 1
                /\ flag' = FlagValue(resp[p].resp)
       /\ \A p \in Procs :
            (pc'[p] = "done" /\
             resp'[p].status \in {"rejected", "blocked", "failed", "simulated"})
            => hist'[p].wrote = NoOrder
      ]_vars

FlagHoldsPlacedOrder ==
    \E p \in Procs :
        /\ op[p] = "trade" /\ Done(p) /\ hist[p].calls = 1
        /\ hist[p].wrote.kind = "broker"
        /\ flag.present /\ flag.placed_resp = hist[p].wrote

\* C7: the step by which a /trade request returns "placed" writes the flag
\* with that request's broker order and the time, and a present flag becomes
\* absent only by a step of /admin/clear_active_trade.
PlacedMarksActive ==
    [][/\ \A p \in Procs :
            (/\ op[p] = "trade" /\ pc[p] \in {"internal", "mark"}
             /\ pc'[p] = "done" /\ resp'[p].status = "placed")
            => /\ resp'[p].resp.kind = "broker"
               /\ flag' = [present |-> TRUE, placed_resp |-> resp'[p].resp,
                           ts |-> Now]
               /\ hist'[p].wrote = resp'[p].resp
       /\ (flag.present /\ ~flag'.present) =>
            \E p \in Procs :
                /\ op'[p] = "clear_active_trade" /\ started' = started + 1
                /\ resp'[p].status = "cleared"
      ]_vars

PlacedAndRecorded ==
    \E p \in Procs :
        /\ op[p] = "trade" /\ Done(p) /\ resp[p].status = "placed"
        /\ flag = FlagValue(resp[p].resp)

\* C8: a served /simulate_trade request never writes the flag and is never
\* blocked, and two of them with the same payload end with the same status,
\* reason and worst_loss, whatever the flag was when each ran.
SimulateIdempotent ==
    \A p \in Procs :
        (op[p] = "simulate_trade" /\ Done(p) /\ Served(p)) =>
            /\ hist[p].wrote = NoOrder
            /\ resp[p].status \in {"rejected", "simulated"}
            /\ \A q \in Procs :
                (op[q] = "simulate_trade" /\ Done(q) /\ Served(q)
                 /\ payload[q] = payload[p])
                => /\ resp[q].status = resp[p].status
                   /\ resp[q].reason = resp[p].reason
                   /\ resp[q].worst_loss = resp[p].worst_loss

SimulatedTwiceAroundActiveTrade ==
    \E p, q \in Procs :
        /\ p # q
        /\ op[p] = "simulate_trade" /\ op[q] = "simulate_trade"
        /\ payload[p] = ScenarioA /\ payload[q] = ScenarioA
        /\ resp[p].status = "simulated" /\ resp[q].status = "simulated"
        /\ ~hist[p].startFlag /\ hist[q].startFlag
        /\ flag.present

\* C9: a /simulate_trade request never fetches the broker client and never
\* calls kc.place_order, and when its payload passes validation and the gate
\* its response is "simulated" with the synthetic order.
SimulateNeverContactsBroker ==
    \A p \in Procs :
        op[p] = "simulate_trade" =>
            /\ hist[p].calls = 0
            /\ ~hist[p].fetched
            /\ resp[p].status \in {"http_401", "rejected", "simulated"}
            /\ PassedGate(p) =>
                 resp[p].status = "simulated" /\ resp[p].resp = SimOrder

SimulatedWithoutBroker ==
    \E p \in Procs :
        /\ op[p] = "simulate_trade" /\ Done(p) /\ PassedGate(p)
        /\ resp[p].status = "simulated" /\ hist[p].calls = 0

\* C10: a served /simulate_trade and an admitted /trade whose broker call
\* succeeded, on the same payload, evaluate the same worst_loss and give the
\* same verdict, reason and worst_loss; they differ in "simulated" against
\* "placed" (and in the order that status carries).
SameRiskOnBothPaths ==
    \A p, q \in Procs :
        (/\ op[p] = "simulate_trade" /\ Done(p) /\ Served(p)
         /\ op[q] = "trade" /\ pc[q] \in {"mark", "done"} /\ Served(q)
         /\ resp[q] # Blocked /\ resp[q].status # "failed"
         /\ payload[p] = payload[q])
        => /\ hist[p].risk = hist[q].risk
           /\ resp[p].reason = resp[q].reason
           /\ resp[p].worst_loss = resp[q].worst_loss
           /\ \/ resp[p] = resp[q] /\ resp[p].status = "rejected"
              \/ resp[p].status = "simulated" /\ resp[q].status = "placed"

SimulatedAndPlacedAtCeiling ==
    \E p, q \in Procs :
        /\ op[p] = "simulate_trade" /\ op[q] = "trade"
        /\ payload[p] = AtCeiling /\ payload[q] = AtCeiling
        /\ resp[p].status = "simulated" /\ resp[q].status = "placed"
        /\ resp[p].worst_loss = Num(Ceiling)
        /\ resp[q].worst_loss = Num(Ceiling)

\* C11: a step of a trade request in which kc.place_order is called and the
\* broker issues no order (the call raised) ends the request with status
\* failed and the error as its reason, and leaves the flag as it was; a
\* request calls kc.place_order at most once, and a failed request has
\* called it once and has not written the flag.
BrokerFailureFailsOnce ==
    [][\A p \in Procs :
        /\ (/\ op'[p] \in {"trade", "simulate_trade"}
            /\ hist'[p].calls > hist[p].calls
            /\ nextOrderId' = nextOrderId)
           => /\ pc'[p] = "done"
              /\ resp'[p] = Response("failed", "broker_error", NoVal, NoOrder)
              /\ flag' = flag
        /\ op'[p] \in {"trade", "simulate_trade"} =>
              /\ hist'[p].calls <= 1
              /\ resp'[p].status = "failed" =>
                    /\ hist'[p].calls = 1
                    /\ pc'[p] = "done"
                    /\ hist'[p].wrote = NoOrder
      ]_vars

FailedTradeLeavesFlagAbsent ==
    \E p \in Procs :
        /\ op[p] = "trade" /\ Done(p) /\ resp[p].status = "failed"
        /\ payload[p] = ScenarioA
        /\ hist[p].calls = 1 /\ ~flag.present

\* a payload lacks a required field, or holds a value that float() (entry,
\* stoploss) or int() (qty, lot_size) does not accept
Lacks(pl) == {k \in {required[i] : i \in 1..Len(required)} : k \notin DOMAIN pl}
NotCoercible(pl) ==
    \/ pl.entry.k = "bad" \/ pl.stoploss.k = "bad"
    \/ pl.qty.k \in {"bad", "nan"}
    \/ "lot_size" \in DOMAIN pl /\ pl.lot_size.k \in {"bad", "nan"}
Malformed(pl) == Lacks(pl) # {} \/ NotCoercible(pl)
\* the request was answered by place_trade_internal
Answered(p) == Done(p) /\ Served(p) /\ resp[p] # Blocked

SubmittedIntentHasPositiveSize ==
    \A p \in Procs :
        op[p] \in {"trade", "simulate_trade"} =>
            /\ resp[p].status \in {"simulated", "placed", "failed"} =>
                 /\ payload[p].qty.v > 0
                 /\ LotSizeOf(payload[p]).v >= 1
            /\ hist[p].risk.k = "num" => hist[p].risk.v >= 0

\* the payload is well formed and its worst_loss is above the ceiling
OverLimit(pl) == ~Malformed(pl) /\ FGt(worst_loss(pl), Ceiling)
ValidationOrRiskRejection(r) ==
    /\ r.status = "rejected"
    /\ r.reason \in {"missing_" \o required[i] : i \in 1..Len(required)}
                     \cup {"invalid_payload_types", "worst_case_loss_exceeds_limit"}

Submitted(p) ==
    \/ resp[p].status \in {"simulated", "placed", "failed"}
    \/ hist[p].calls > 0
    \/ pc[p] = "mark"

GuardFailsClosed ==
    \A p \in Procs :
        (op[p] = "trade" /\ hist[p].exists = "raised") =>
            /\ hist[p].calls = 0
            /\ ~hist[p].fetched
            /\ hist[p].risk = NoVal
            /\ hist[p].wrote = NoOrder
            /\ Done(p) /\ resp[p] = StoreError

StoreDownAtCheckNoOrder ==
    \E p \in Procs :
        /\ op[p] = "trade" /\ hist[p].exists = "raised" /\ Done(p)
        /\ payload[p] = ScenarioA /\ ~flag.present
        /\ hist[p].calls = 0 /\ nextOrderId = 1

\* C17: every /trade or /simulate_trade request that passed check_admin
\* ends with one of the outcomes blocked, rejected, simulated, placed or
\* failed, whatever the store and the broker do, and a request whose
\* kc.place_order returned an order returns that order as placed.
NoStoreErrorEscapes ==
    \A p \in Procs :
        (op[p] \in {"trade", "simulate_trade"} /\ Done(p)
         /\ resp[p] # Unauthorized) =>
            /\ resp[p].status \in
                 {"blocked", "rejected", "simulated", "placed", "failed"}
            /\ hist[p].calls = 1 =>
                 resp[p].status \in {"placed", "failed"}

\* the outcomes a request can end with
TerminalOutcome(p) ==
    \/ op[p] \in {"trade", "simulate_trade"} /\
         resp[p].status \in {"rejected", "blocked", "failed", "simulated", "placed"}
    \/ op[p] = "predict" /\ resp[p].status = "ok"

\* C18: every request that has ended with a terminal outcome has appended
\* exactly one entry to the log, so the log holds as many entries as
\* requests have ended so, on the trade endpoints as on /predict.
OneLogEntryPerOutcome ==
    \A p \in Procs :
        (Done(p) /\ TerminalOutcome(p)) =>
            /\ hist[p].push = "stored"
            /\ Len(predictions) >= 1

\* C19: a /predict request whose r.lpush raised returns what a request with
\* the same prediction returns when r.lpush succeeds: status ok with the
\* recovered pred; the failure is reported by logger.exception, no entry is
\* appended and no exception leaves the handler.
LogFailureKeepsResponse ==
    \A p \in Procs :
        (op[p] = "predict" /\ Done(p) /\ hist[p].push = "raised") =>
            /\ hist[p].reported
            /\ resp[p].status = "ok"
            /\ resp[p].resp = Parsed(hist[p].raw)
            /\ \A q \in Procs :
                 (op[q] = "predict" /\ Done(q) /\ hist[q].push = "stored"
                  /\ hist[q].raw = hist[p].raw)
                 => /\ resp[q] = resp[p]
                    /\ Len(predictions) >= 1

SameDecisionWithAndWithoutLog ==
    \E p, q \in Procs :
        /\ op[p] = "predict" /\ Done(p) /\ hist[p].push = "raised"
        /\ op[q] = "predict" /\ Done(q) /\ hist[q].push = "stored"
        /\ hist[p].answer = ObjectText("BUY") /\ hist[q].answer = ObjectText("BUY")
        /\ resp[p] = resp[q] /\ resp[p].resp = PyDict("BUY")
        /\ predictions = <<LogEntry(PyDict("BUY"))>>

\* C20: get_prediction never raises, and when the reasoning service failed
\* it returns a FLAT decision whose rationale is the error.
ReasoningFailureGivesFlat ==
    \A p \in Procs :
        op[p] = "predict" =>
            /\ hist[p].raw # PyRaised
            /\ hist[p].answer = ServiceDown =>
                 /\ hist[p].raw.kind = "dict"
                 /\ hist[p].raw.decision = "FLAT"
                 /\ hist[p].raw.error # ""

\* the /predict request received a reply of the reasoning service and has
\* recovered its pred
Replied(p) ==
    /\ op[p] = "predict" /\ pc[p] \in {"log", "done"}
    /\ hist[p].answer \in Texts

\* C21: a /predict request whose reply is prose around a fenced JSON object
\* (Scenario D) returns the inner object as its data, not an error record.
FencedObjectRecovered ==
    \A p \in Procs :
        (Replied(p) /\ hist[p].answer = ScenarioD) =>
            /\ resp[p].resp = PyDict("SELL")
            /\ resp[p].resp.error = ""

\* the replies the claim calls malformed: the empty string, prose with no
\* JSON, an object without the decision key
MalformedReplies == {EmptyText, ProseText, ObjectText("none")}

\* C22: for a malformed reply the pred of /predict is a decision FLAT whose
\* rationale is not empty and holds the raw text of the reply.
MalformedReplyGivesFlat ==
    \A p \in Procs :
        (Replied(p) /\ hist[p].answer \in MalformedReplies) =>
            /\ resp[p].resp.kind = "dict"
            /\ resp[p].resp.decision = "FLAT"
            /\ resp[p].resp.error # ""
            /\ resp[p].resp.raw = hist[p].answer

Decisions == {"BUY", "SELL", "FLAT"}

\* C23: what get_prediction returns, and the prediction of every entry of
\* the log, has its decision in {BUY, SELL, FLAT}.
DecisionIsBuySellFlat ==
    /\ \A p \in Procs :
          Replied(p) => hist[p].raw.decision \in Decisions
    /\ \A i \in 1..Len(predictions) :
          predictions[i].prediction.decision \in Decisions

\* the pred of the request is a FLAT decision, an unparseable reply or an
\* error
FlatOrFailed(p) ==
    \/ resp[p].resp.decision = "FLAT"
    \/ resp[p].resp.error # ""

\* C24: a /predict request that has ended with a FLAT decision, an
\* unparseable reply or an error has fetched no broker client, called
\* kc.place_order never, written no flag, and has made its r.lpush.
FlatOutcomeLoggedWithoutOrder ==
    \A p \in Procs :
        (op[p] = "predict" /\ Done(p) /\ resp[p].status = "ok"
         /\ FlatOrFailed(p)) =>
            /\ hist[p].calls = 0
            /\ ~hist[p].fetched
            /\ hist[p].wrote = NoOrder
            /\ hist[p].push # "none"

\* no other handler has served a request, nor starts one in this step
Alone(p) == \A q \in Procs \ {p} : pc[q] = "idle" /\ pc'[q] = "idle"

\* C25: the flag is absent before the first request; it becomes present
\* only by the r.set of a /trade request whose broker order was placed; it
\* becomes absent only by a step of /admin/clear_active_trade; a served
\* clear answers cleared and leaves the flag absent, whether the flag was
\* present or absent; and, no other handler running, the /trade request
\* that follows a clear is not blocked and a payload that passes validation
\* and the gate is sent to kc.place_order.
FlagLifecycle ==
    [][/\ started = 0 => ~flag.present
       /\ (~flag.present /\ flag'.present) =>
            \E p \in Procs :
                /\ op[p] = "trade" /\ pc[p] = "mark" /\ pc'[p] = "done"
                /\ resp[p].status = "placed" /\ resp[p].resp.kind = "broker"
                /\ flag' = FlagValue(resp[p].resp)
       /\ (flag.present /\ ~flag'.present) =>
            \E p \in Procs :
                /\ pc[p] \in {"idle", "done"} /\ pc'[p] = "done"
                /\ op'[p] = "clear_active_trade" /\ resp'[p].status = "cleared"
       /\ \A p \in Procs :
            /\ (/\ Alone(p) /\ started' = started + 1
                /\ op'[p] = "clear_active_trade"
                /\ resp'[p] \notin {Unauthorized, StoreError})
               => resp'[p].status = "cleared" /\ ~flag'.present
            /\ (/\ Alone(p) /\ started' = started + 1
                /\ op[p] = "clear_active_trade" /\ resp[p].status = "cleared"
                /\ op'[p] = "trade"
                /\ resp'[p] \notin {Unauthorized, StoreError})
               => pc'[p] = "internal" /\ hist'[p].exists = "absent"
            /\ (/\ pc[p] = "internal" /\ pc'[p] # "internal"
                /\ ~Malformed(payload[p]) /\ ~OverLimit(payload[p]))
               => hist'[p].calls = 1 /\ hist'[p].fetched
      ]_vars

ClearedAbsentFlag ==
    \E p \in Procs :
        /\ op[p] = "clear_active_trade" /\ Done(p)
        /\ resp[p].status = "cleared"
        /\ ~hist[p].startFlag /\ ~flag.present
        /\ nextOrderId = 2

\* C26: a LIMIT order with no price never reaches kc.place_order, through
\* the helper place_market_order as through /zerodha/place-order, and ends
\* with a validation failure.
LimitWithoutPriceRefused ==
    \A p \in Procs :
        (/\ op[p] \in {"place_market_order", "zerodha_place_order"}
         /\ payload[p].order_type = "LIMIT" /\ payload[p].price = NoVal) =>
            /\ hist[p].calls = 0
            /\ resp[p].resp.kind # "broker"

\* 2^n
RECURSIVE Pow2(_)
Pow2(n) == IF n = 0 THEN 1 ELSE 2 * Pow2(n - 1)

RetriedKind(a) == a = Http(429) \/ a = Transport
\* the requests a call can make: up to the first answer that is a response
\* or an error status other than 429, and never more than max
Final(max, answers) ==
    {j \in 1..max : ~RetriedKind(answers[j]) /\
                     \A i \in 1..(j - 1) : RetriedKind(answers[i])}

\* C28: a call of _get_with_retries makes at most MAX_RETRIES requests; it
\* stops at the first request that is answered with a response, which it
\* returns, or with an error status other than 429, which it raises; every
\* request before that one was answered 429 or not at all and was followed
\* by a sleep of backoff * (attempt + 1), backoff doubling from
\* RETRY_BACKOFF; when every request was so answered it raises the
\* exception of the last one, and with MAX_RETRIES = 0 it makes no request
\* and raises the generic failure.
RetriesBoundedAndOrdered ==
    groww.fn = "_get_with_retries" =>
        LET r == groww.result
            max == groww.max
            a == groww.answers IN
        /\ r.requests <= max
        /\ \A j \in 1..Len(r.sleeps) :
              r.sleeps[j] = RETRY_BACKOFF * Pow2(j - 1) * j
        /\ IF Final(max, a) # {}
           THEN \E j \in Final(max, a) :
                    /\ r.requests = j
                    /\ Len(r.sleeps) = j - 1
                    /\ r.value = a[j]
                    /\ r.out = IF a[j].k = "ok" THEN "return" ELSE "raise"
           ELSE /\ r.requests = max
                /\ Len(r.sleeps) = max
                /\ r.out = "raise"
                /\ r.value = IF max = 0 THEN Generic ELSE a[max]

RetriedTwiceThenReturned ==
    /\ groww.fn = "_get_with_retries"
    /\ groww.max = 3
    /\ groww.answers[1] = Http(429) /\ groww.answers[2] = Transport
    /\ groww.answers[3] = Ok("chain")
    /\ groww.result.out = "return" /\ groww.result.requests = 3
    /\ groww.result.sleeps = <<8, 32>>

\* the last path requested gave a response that is a chain
GaveChain(g) ==
    /\ g.result.out = "return"
    /\ g.result.value.body \in {"chain", "empty_chain"}

\* C27: fetch_option_chain requests the candidate paths in list order, each
\* once; a path whose request raised (a 401 or 403 of the retry helper
\* included), or whose response is no JSON, no object, an error payload or
\* fails validation, is recorded in last_exc and the next path is
\* requested; the first path that gives a chain ends the call, which
\* returns that chain; when the seven paths have failed the call raises
\* last_exc, the exception of the seventh.
PathsTriedInOrder ==
    groww.fn \in {"fetch_option_chain", "get_option_chain"} =>
        /\ groww.tried \in 0..NumPaths
        /\ groww.pc = "paths" => groww.path = groww.tried + 1
        /\ (groww.tried > 0 /\ groww.value = NoValue) =>
              /\ ~GaveChain(groww)
              /\ groww.last_exc.path = groww.tried
              /\ groww.last_exc.exc # NoExc
              /\ groww.result.out = "raise" =>
                    groww.last_exc.exc = groww.result.value
              /\ groww.result.out = "return" =>
                    groww.last_exc.exc.body = groww.result.value.body
        /\ groww.value # NoValue =>
              /\ GaveChain(groww)
              /\ groww.value = [body |-> groww.result.value.body,
                                path |-> groww.tried]
              /\ groww.path = groww.tried
              /\ groww.last_exc.path = groww.tried - 1
              /\ groww.pc \in {"returned", "answered"}
        /\ (groww.pc = "raised" \/ (groww.pc = "answered" /\ groww.value = NoValue)) =>
              /\ groww.tried = NumPaths
              /\ groww.last_exc.path = NumPaths

ThirdPathAfterUnauthorized ==
    /\ groww.fn = "fetch_option_chain" /\ groww.pc = "returned"
    /\ groww.value = [body |-> "chain", path |-> 3]
    /\ groww.last_exc = At(Http(401), 2)
    /\ groww.result.requests = 1

\* C29: the route answers a chain whose ce and pe are both empty with
\* status 502 and detail "Empty option chain received", and answers 500
\* only when fetch_option_chain raised.
EmptyChainAnswered502 ==
    (groww.fn = "get_option_chain" /\ groww.pc = "answered") =>
        /\ groww.value.body = "empty_chain" =>
              groww.http = 502 /\ groww.detail = "Empty option chain received"
        /\ groww.http = 500 => groww.value = NoValue

\* the endpoints that call check_admin
AdminEndpoints ==
    {"predict", "simulate_trade", "trade", "get_active_trade",
     "clear_active_trade"}

\* C30: a request to /predict, /simulate_trade, /trade, /admin/active_trade
\* or /admin/clear_active_trade whose x-admin-token is absent or differs
\* from ADMIN_TOKEN is answered 401 in its first step; that step leaves the
\* flag, the predictions log and the broker's order counter as they were,
\* and the request has made no call of the store, the broker or the
\* reasoning service.
UnauthorizedBeforeSideEffects ==
    [][\A p \in Procs :
          (/\ Alone(p) /\ started' = started + 1
           /\ op'[p] \in AdminEndpoints
           /\ hist'[p].token # ADMIN_TOKEN)
          => /\ pc'[p] = "done" /\ resp'[p] = Unauthorized
             /\ flag' = flag /\ predictions' = predictions
             /\ nextOrderId' = nextOrderId
             /\ hist'[p].calls = 0 /\ ~hist'[p].fetched
             /\ hist'[p].wrote = NoOrder /\ hist'[p].exists = "none"
             /\ hist'[p].asked = 0 /\ hist'[p].push = "none"
      ]_vars

UnauthorizedClearKeepsFlagAndLog ==
    /\ Done(1) /\ op[1] = "clear_active_trade" /\ hist[1].token = NoToken
    /\ resp[1] = Unauthorized
    /\ flag.present /\ Len(predictions) = 1

====
